---- MODULE Spec2Model ----
(***************************************************************************)
(* Model of divvy's Config (src/src/config.js): the rule list, its         *)
(* construction (addRule, validate), the matcher (findRules, parseGlob),   *)
(* the JSON loader (fromJsonFile) and the zookeeper-driven reload          *)
(* (getData, processNewRules).                                             *)
(*                                                                         *)
(* JavaScript values are represented as follows.  A string that is matched *)
(* character by character (a pattern value, an attribute value) is a       *)
(* sequence of one-character strings; so is a label, with UndefLabel for   *)
(* undefined and NullLabel for null.  A match policy is a TLA+ string,     *)
(* Undef standing for undefined.  A limit                                  *)
(* (creditLimit, resetSeconds) is a record [t, n]: t = "num" with the      *)
(* number n, or t = "undef".  An object with string values (a rule's       *)
(* operation, a request's operation) is a function from a subset of Keys.  *)
(***************************************************************************)
EXTENDS Integers, Sequences, FiniteSets, TLC

VARIABLES
  rules,       \* config.rules: the sequence of installed rules
  ruleLabels,  \* config.ruleLabels: the set of labels handed out
  ret,         \* the outcome of the most recent call or callback
  pc,          \* the process: "api" (a Config used through its methods alone),
               \* "start", "serving", "failed" (fromJsonFile threw), "crashed"
  file,        \* the configuration file named by process.argv[2]
  node,        \* the zookeeper node ZK_AUX_RULES_PATH
  zk,          \* the zookeeper client: request in flight, watch set, event in flight
  resp,        \* the answer to getData that waits for its callback
  escaped      \* TRUE once an exception has left a zookeeper callback

vars == <<rules, ruleLabels, ret, pc, file, node, zk, resp, escaped>>

----------------------------------------------------------------------------
(* Bounds *)

\* The greatest number of rules a Config holds in SpecApi.
MaxRules == 3
\* The greatest number of declarations in the zookeeper node.
MaxDyn == 2

----------------------------------------------------------------------------
(* JavaScript values *)

Undef == "<undefined>"
Null == "<null>"
UndefLabel == <<Undef>>
NullLabel == <<Null>>

\* JavaScript's truthiness of a match policy and of a label.
Truthy(v) == v \notin {Undef, Null, ""}
TruthyLabel(l) == l \notin {UndefLabel, NullLabel, <<>>}

Num(n) == [t |-> "num", n |-> n]
UndefNum == [t |-> "undef", n |-> 0]
\* null where a number is expected; Number(null) is 0.
NullNum == [t |-> "null", n |-> 0]

\* Number.isNaN(Number(v))
IsNaNNumber(v) == v.t = "undef"
\* v < k, on v converted to a number; false when v converts to NaN
Less(v, k) == v.t # "undef" /\ v.n < k
\* v > k, on v converted to a number; false when v converts to NaN
Greater(v, k) == v.t # "undef" /\ v.n > k

\* String(undefined), which RegExp.prototype.test applies to an absent attribute.
UndefinedString == <<"u", "n", "d", "e", "f", "i", "n", "e", "d">>

\* Constants.MATCH_POLICY_STOP and Constants.MATCH_POLICY_CANARY
MATCH_POLICY_STOP == "stop"
MATCH_POLICY_CANARY == "canary"

\* Object.keys(o) lists the keys in insertion order; the model's objects hold
\* their keys in this order.
KeyOrder == <<"a", "b">>
Keys == {KeyOrder[i] : i \in 1..Len(KeyOrder)}
ObjectKeys(o) == SelectSeq(KeyOrder, LAMBDA k : k \in DOMAIN o)
EmptyObject == <<>>

\* o[k]: [def |-> TRUE, s |-> the string] or, when o has no key k, undefined
Get(o, k) == IF k \in DOMAIN o THEN [def |-> TRUE, s |-> o[k]] ELSE [def |-> FALSE, s |-> <<>>]

----------------------------------------------------------------------------
(* Globs: parseGlob and the regular expression it builds *)

\* The characters REGEX_ESCAPE_CHARACTERS matches.
REGEX_ESCAPE_CHARACTERS ==
  {"-", "[", "]", "{", "}", "(", ")", "+", "?", ".", ",", "\\", "^", "$", "|", "#"}

\* isGlobValue(v): v contains a "*"
isGlobValue(v) == \E i \in 1..Len(v) : v[i] = "*"

RECURSIVE EscapeFrom(_, _)
\* ruleValue.replace(REGEX_ESCAPE_CHARACTERS, '\\$&') from position i on
EscapeFrom(v, i) ==
  IF i > Len(v) THEN <<>>
  ELSE (IF v[i] \in REGEX_ESCAPE_CHARACTERS THEN <<"\\", v[i]>> ELSE <<v[i]>>)
       \o EscapeFrom(v, i + 1)

\* ruleValue.replace('*', '.*'): the first "*" only
ReplaceFirstStar(v) ==
  IF isGlobValue(v)
  THEN LET i == CHOOSE j \in 1..Len(v) : v[j] = "*" /\ \A k \in 1..(j - 1) : v[k] # "*"
       IN SubSeq(v, 1, i - 1) \o <<".", "*">> \o SubSeq(v, i + 1, Len(v))
  ELSE v

\* The source text of the regular expression, without its leading "^".
GlobSource(ruleValue) == ReplaceFirstStar(EscapeFrom(ruleValue, 1))

RECURSIVE ParseRegex(_, _, _)
\* new RegExp(source): the atoms of the source from position i on, appended to
\* acc.  An atom is a literal character or "." (any character), possibly
\* starred.  A "*" with nothing to repeat (at the start, or after a starred
\* atom) is a SyntaxError.
ParseRegex(src, i, acc) ==
  IF i > Len(src) THEN [err |-> FALSE, atoms |-> acc]
  ELSE IF src[i] = "\\"
    THEN ParseRegex(src, i + 2, Append(acc, [any |-> FALSE, c |-> src[i + 1], star |-> FALSE]))
  ELSE IF src[i] = "*"
    THEN IF acc = <<>> \/ acc[Len(acc)].star
         THEN [err |-> TRUE, atoms |-> <<>>]
         ELSE ParseRegex(src, i + 1, [acc EXCEPT ![Len(acc)].star = TRUE])
  ELSE IF src[i] = "."
    THEN ParseRegex(src, i + 1, Append(acc, [any |-> TRUE, c |-> ".", star |-> FALSE]))
  ELSE ParseRegex(src, i + 1, Append(acc, [any |-> FALSE, c |-> src[i], star |-> FALSE]))

\* parseGlob(ruleValue): [err, atoms] of the regular expression ^<source>
parseGlob(ruleValue) == ParseRegex(GlobSource(ruleValue), 1, <<>>)

\* The characters "." does not match: the line terminators.
LineTerminators == {"\n", "\r"}

\* Whether the atom matches the character ch.
AtomTakes(atom, ch) == IF atom.any THEN ch \notin LineTerminators ELSE atom.c = ch

RECURSIVE MatchAt(_, _, _, _)
\* Whether atoms i.. match s from position j on; the end of s is not anchored.
MatchAt(atoms, i, s, j) ==
  IF i > Len(atoms) THEN TRUE
  ELSE IF atoms[i].star
    THEN \/ MatchAt(atoms, i + 1, s, j)
         \/ j <= Len(s) /\ AtomTakes(atoms[i], s[j]) /\ MatchAt(atoms, i, s, j + 1)
  ELSE j <= Len(s) /\ AtomTakes(atoms[i], s[j]) /\ MatchAt(atoms, i + 1, s, j + 1)

\* regex.test(value): an undefined value is tested as the string "undefined"
RegexTest(atoms, value) ==
  MatchAt(atoms, 1, IF value.def THEN value.s ELSE UndefinedString, 1)

----------------------------------------------------------------------------
(* The matcher: findRules *)

RECURSIVE MatchKeysPresentOnly(_, _, _, _)
\* MatchKeys with a "*" that wants the attribute present.
MatchKeysPresentOnly(pattern, operation, ks, i) ==
  IF i > Len(ks) THEN "match"
  ELSE LET operationValue == pattern[ks[i]]
           actual == Get(operation, ks[i])
       IN IF operationValue = <<"*">>
            THEN IF actual.def THEN MatchKeysPresentOnly(pattern, operation, ks, i + 1)
                 ELSE "nomatch"
          ELSE IF isGlobValue(operationValue)
            THEN LET re == parseGlob(operationValue)
                 IN IF re.err THEN "throw"
                    ELSE IF RegexTest(re.atoms, actual)
                      THEN MatchKeysPresentOnly(pattern, operation, ks, i + 1)
                    ELSE "nomatch"
          ELSE IF actual.def /\ actual.s = operationValue
            THEN MatchKeysPresentOnly(pattern, operation, ks, i + 1)
          ELSE "nomatch"

RECURSIVE MatchKeys(_, _, _, _)
\* The inner loop of findRules over Object.keys(rule.operation) from position i
\* on: "match", "nomatch", or "throw" when parseGlob raises a SyntaxError.
MatchKeys(pattern, operation, ks, i) ==
  IF i > Len(ks) THEN "match"
  ELSE LET operationValue == pattern[ks[i]]
           actual == Get(operation, ks[i])
       IN IF operationValue = <<"*">>
            THEN MatchKeys(pattern, operation, ks, i + 1)
          ELSE IF isGlobValue(operationValue)
            THEN LET re == parseGlob(operationValue)
                 IN IF re.err THEN "throw"
                    ELSE IF RegexTest(re.atoms, actual)
                      THEN MatchKeys(pattern, operation, ks, i + 1)
                    ELSE "nomatch"
          ELSE IF actual.def /\ actual.s = operationValue
            THEN MatchKeys(pattern, operation, ks, i + 1)
          ELSE "nomatch"

\* Whether one rule matches an operation.
MatchRule(rule, operation) ==
  MatchKeys(rule.operation, operation, ObjectKeys(rule.operation), 1)

RECURSIVE FindFromNoBreak(_, _, _, _)
\* FindFrom without the break after a matching stop rule.
FindFromNoBreak(rs, operation, i, acc) ==
  IF i > Len(rs) THEN [err |-> "none", idx |-> acc]
  ELSE IF ~Truthy(rs[i].matchPolicy) THEN [err |-> "bug", idx |-> <<>>]
  ELSE LET m == MatchRule(rs[i], operation)
       IN IF m = "throw" THEN [err |-> "syntax", idx |-> <<>>]
          ELSE IF m = "match"
            THEN FindFromNoBreak(rs, operation, i + 1, Append(acc, i))
          ELSE FindFromNoBreak(rs, operation, i + 1, acc)

RECURSIVE FindFromStopOnly(_, _, _, _)
\* FindFrom with result.push(rule) moved into the test for a stop rule.
FindFromStopOnly(rs, operation, i, acc) ==
  IF i > Len(rs) THEN [err |-> "none", idx |-> acc]
  ELSE IF ~Truthy(rs[i].matchPolicy) THEN [err |-> "bug", idx |-> <<>>]
  ELSE LET m == MatchRule(rs[i], operation)
       IN IF m = "throw" THEN [err |-> "syntax", idx |-> <<>>]
          ELSE IF m = "match" /\ rs[i].matchPolicy = MATCH_POLICY_STOP
            THEN [err |-> "none", idx |-> Append(acc, i)]
          ELSE FindFromStopOnly(rs, operation, i + 1, acc)

RECURSIVE FindFrom(_, _, _, _)
\* The outer loop of findRules from rule i on; acc holds the positions of the
\* rules pushed to result so far.
FindFrom(rs, operation, i, acc) ==
  IF i > Len(rs) THEN [err |-> "none", idx |-> acc]
  ELSE IF ~Truthy(rs[i].matchPolicy) THEN [err |-> "bug", idx |-> <<>>]
  ELSE LET m == MatchRule(rs[i], operation)
       IN IF m = "throw" THEN [err |-> "syntax", idx |-> <<>>]
          ELSE IF m = "match"
            THEN IF rs[i].matchPolicy = MATCH_POLICY_STOP
                 THEN [err |-> "none", idx |-> Append(acc, i)]
                 ELSE FindFrom(rs, operation, i + 1, Append(acc, i))
          ELSE FindFrom(rs, operation, i + 1, acc)

\* findRules(operation) on the rule list rs: [err, idx], idx the positions in rs
\* of the rules returned, in the order returned; err # "none" when it throws.
findRules(rs, operation) == FindFrom(rs, operation, 1, <<>>)

\* The rules a findRules outcome returns.
Returned(rs, found) == [k \in 1..Len(found.idx) |-> rs[found.idx[k]]]

----------------------------------------------------------------------------
(* Construction: addRule and validate *)

LabelChars == {"f", "g", "_", "-"}
\* RULE_LABEL_REGEX.test(label); the model's labels use the characters f, g
\* (letters), "_", "-" and " " (a character the pattern excludes).
RULE_LABEL_REGEX(label) ==
  /\ Len(label) >= 1 /\ Len(label) <= 255
  /\ \A i \in 1..Len(label) : label[i] \in LabelChars

\* StopPositions without the test of matchPolicy: any rule found counts.
StopPositionsAnyPolicy(rs, found) == 1..Len(found.idx)

\* The positions of found whose rule has matchPolicy stop.
StopPositions(rs, found) ==
  {k \in 1..Len(found.idx) : rs[found.idx[k]].matchPolicy = MATCH_POLICY_STOP}

\* NewRule without "|| Constants.MATCH_POLICY_STOP": the policy is stored as given.
NewRuleNoDefaultPolicy(a) ==
  [operation |-> a.operation,
   creditLimit |-> a.creditLimit,
   resetSeconds |-> a.resetSeconds,
   matchPolicy |-> a.matchPolicy,
   label |-> IF TruthyLabel(a.label) THEN a.label ELSE NullLabel]

\* The rule addRule installs for the argument a.
NewRule(a) ==
  [operation |-> a.operation,
   creditLimit |-> a.creditLimit,
   resetSeconds |-> a.resetSeconds,
   matchPolicy |-> IF Truthy(a.matchPolicy) THEN a.matchPolicy ELSE MATCH_POLICY_STOP,
   label |-> IF TruthyLabel(a.label) THEN a.label ELSE NullLabel]

\* LabelError without the test of ruleLabels.
LabelErrorNoDuplicateTest(labels, label) ==
  IF ~RULE_LABEL_REGEX(label) THEN "label" ELSE "none"

\* The label checks of addRule for a truthy label: "none" or the error thrown.
LabelError(labels, label) ==
  IF ~RULE_LABEL_REGEX(label) THEN "label"
  ELSE IF label \in labels THEN "duplicate"
  ELSE "none"

\* addRule(a) on a Config c = [rules, ruleLabels]: the Config afterwards and
\* err, "none" or the error thrown.  a.opDef says whether an operation was
\* passed at all.
addRule(c, a) ==
  LET found == findRules(c.rules, a.operation)
      fail(e) == [rules |-> c.rules, ruleLabels |-> c.ruleLabels, err |-> e]
      labels == IF TruthyLabel(a.label) THEN c.ruleLabels \cup {a.label} ELSE c.ruleLabels
      labelErr == IF TruthyLabel(a.label) THEN LabelError(c.ruleLabels, a.label) ELSE "none"
  IN IF ~a.opDef THEN fail("operation")
     ELSE IF found.err # "none" THEN fail(found.err)
     ELSE IF StopPositions(c.rules, found) # {} THEN fail("unreachable")
     ELSE IF IsNaNNumber(a.creditLimit) \/ Less(a.creditLimit, 0) THEN fail("creditLimit")
     ELSE IF Greater(a.creditLimit, 0)
             /\ (IsNaNNumber(a.resetSeconds) \/ Less(a.resetSeconds, 1))
       THEN fail("resetSeconds")
     ELSE IF labelErr # "none" THEN fail(labelErr)
     ELSE IF Truthy(a.matchPolicy)
             /\ a.matchPolicy \notin {MATCH_POLICY_STOP, MATCH_POLICY_CANARY}
       THEN [rules |-> c.rules, ruleLabels |-> labels, err |-> "matchPolicy"]
     ELSE [rules |-> Append(c.rules, NewRule(a)), ruleLabels |-> labels, err |-> "none"]

\* validate with the test of the last rule made on any rule: a list passes
\* when some rule of it has an empty pattern.
validateAnyDefault(rs) ==
  IF Len(rs) = 0 THEN "norules"
  ELSE IF \A i \in 1..Len(rs) : Cardinality(DOMAIN rs[i].operation) # 0 THEN "nodefault"
  ELSE "none"

\* validate() on the rule list rs: "none" or the error thrown.
validate(rs) ==
  IF Len(rs) = 0 THEN "norules"
  ELSE IF Cardinality(DOMAIN rs[Len(rs)].operation) # 0 THEN "nodefault"
  ELSE "none"

----------------------------------------------------------------------------
(* The loader: fromJsonFile and processNewRules *)

\* Utils.stringifyObjectValues(rule.operation): the operation with its values
\* as strings, the empty object for a declaration without an operation.
stringifyObjectValues(op) == IF op.def THEN op.o ELSE EmptyObject

\* The argument the loaders build from a declaration of the file or the node.
RuleArg(decl) ==
  [opDef |-> TRUE, operation |-> stringifyObjectValues(decl.operation),
   creditLimit |-> decl.creditLimit, resetSeconds |-> decl.resetSeconds,
   matchPolicy |-> decl.matchPolicy, label |-> decl.label]

RECURSIVE AddAll(_, _, _)
\* overrides.forEach(rule => config.addRule(...)) from declaration i on: the
\* first addRule that throws ends the loop, with the Config as it is then.
AddAll(c, decls, i) ==
  IF i > Len(decls) THEN [rules |-> c.rules, ruleLabels |-> c.ruleLabels, err |-> "none"]
  ELSE LET r == addRule(c, RuleArg(decls[i]))
       IN IF r.err # "none" THEN r
          ELSE AddAll([rules |-> r.rules, ruleLabels |-> r.ruleLabels], decls, i + 1)

\* The Config after addRule for every declaration, then validate().
AddAllAndValidate(c, decls) ==
  LET r == AddAll(c, decls, 1)
  IN IF r.err # "none" THEN r ELSE [r EXCEPT !.err = validate(r.rules)]

Reverse(q) == [i \in 1..Len(q) |-> q[Len(q) + 1 - i]]

NewConfig == [rules |-> <<>>, ruleLabels |-> {}]

\* Config.fromJsonFile(filename) for the file content f: the Config built and
\* err, "none" or the error thrown.  "type" is the TypeError of
\* rawConfig.overrides.push when the file has a default and no overrides.
fromJsonFile(f) ==
  IF f.hasDefault /\ ~f.hasOverrides
  THEN [rules |-> <<>>, ruleLabels |-> {}, err |-> "type"]
  ELSE AddAllAndValidate(NewConfig,
         IF f.hasDefault THEN Append(f.overrides, f.default) ELSE f.overrides)

\* processNewRules without lines 106-107: the rules of the file and the node
\* are added to the Config as it is.
processNewRulesNoReset(c, f, data) ==
  LET same(e) == [rules |-> c.rules, ruleLabels |-> c.ruleLabels, err |-> e]
      unshifted == Reverse(data.decls) \o f.overrides
  IN IF data.kind = "nodata" THEN same("type")
     ELSE IF f.ext = ".ini" THEN same("ini")
     ELSE IF data.kind = "garbage" THEN same("parse")
     ELSE IF ~f.hasOverrides /\ Len(data.decls) > 0 THEN same("type")
     ELSE IF f.hasDefault /\ ~f.hasOverrides THEN same("type")
     ELSE AddAllAndValidate(c,
            IF f.hasDefault THEN Append(unshifted, f.default) ELSE unshifted)

\* processNewRules(rules, config) for the node data and the file f named by
\* process.argv[2], on the Config c: the Config afterwards and err: "none",
\* "ini" (nothing done) or the error thrown.
processNewRules(c, f, data) ==
  LET same(e) == [rules |-> c.rules, ruleLabels |-> c.ruleLabels, err |-> e]
      reset(e) == [rules |-> <<>>, ruleLabels |-> {}, err |-> e]
      unshifted == Reverse(data.decls) \o f.overrides
  IN IF data.kind = "nodata" THEN same("type")
     ELSE IF f.ext = ".ini" THEN same("ini")
     ELSE IF data.kind = "garbage" THEN reset("parse")
     ELSE IF ~f.hasOverrides /\ Len(data.decls) > 0 THEN reset("type")
     ELSE IF f.hasDefault /\ ~f.hasOverrides THEN reset("type")
     ELSE AddAllAndValidate(NewConfig,
            IF f.hasDefault THEN Append(unshifted, f.default) ELSE unshifted)

----------------------------------------------------------------------------
(* Inputs *)

sX == <<"x">>
sY == <<"y">>
sXY == <<"x", "y">>
sStar == <<"*">>
sXStar == <<"x", "*">>
sYStarStar == <<"y", "*", "*">>
lFoo == <<"f">>
lBad == <<"f", " ">>

\* The objects {a: v} and {a: v, b: w}
ObjA(v) == [k \in {"a"} |-> v]
ObjAB(v, w) == [k \in {"a", "b"} |-> IF k = "a" THEN v ELSE w]

\* An argument of addRule.
Arg(op, cl, rs, mp, lb) ==
  [opDef |-> TRUE, operation |-> op, creditLimit |-> cl, resetSeconds |-> rs,
   matchPolicy |-> mp, label |-> lb]

\* The arguments SpecApi calls addRule with: rules that differ in pattern and
\* policy, and one argument for each error addRule raises.
ApiArgs ==
  { Arg(EmptyObject, Num(1), Num(1), Undef, UndefLabel),
    Arg(EmptyObject, Num(1), Num(1), MATCH_POLICY_CANARY, UndefLabel),
    Arg(ObjA(sX), Num(1), Num(1), MATCH_POLICY_STOP, UndefLabel),
    Arg(ObjA(sX), Num(1), Num(1), MATCH_POLICY_CANARY, lFoo),
    Arg(ObjA(sXStar), Num(0), UndefNum, MATCH_POLICY_CANARY, UndefLabel),
    Arg(ObjA(sStar), NullNum, UndefNum, "", <<>>),
    Arg(ObjAB(sX, sYStarStar), Num(1), Num(1), MATCH_POLICY_CANARY, UndefLabel),
    Arg(ObjA(sY), Num(-1), Num(1), Undef, UndefLabel),
    Arg(ObjA(sY), UndefNum, Num(1), Undef, UndefLabel),
    Arg(ObjA(sY), Num(1), Num(0), Undef, UndefLabel),
    Arg(ObjA(sY), Num(1), UndefNum, Undef, UndefLabel),
    Arg(ObjA(sY), Num(1), Num(1), Undef, lBad),
    Arg(ObjA(sY), Num(1), Num(1), "bogus", lFoo),
    [Arg(EmptyObject, Num(1), Num(1), Undef, UndefLabel) EXCEPT !.opDef = FALSE] }

\* A declaration of the file or of the node; op is [def, o].
Decl(op, cl, rs, mp, lb) ==
  [operation |-> op, creditLimit |-> cl, resetSeconds |-> rs, matchPolicy |-> mp, label |-> lb]
Op(o) == [def |-> TRUE, o |-> o]
NoOp == [def |-> FALSE, o |-> EmptyObject]

\* The file's declarations: one override and the default, which has no operation.
S1 == Decl(Op(ObjA(sXStar)), Num(1), Num(1), Undef, UndefLabel)
Default == Decl(NoOp, Num(1), Num(1), Undef, UndefLabel)

File(ext, hasOverrides, overrides, hasDefault) ==
  [ext |-> ext, hasOverrides |-> hasOverrides, overrides |-> overrides,
   hasDefault |-> hasDefault, default |-> Default]

MainFile == File(".json", TRUE, <<S1>>, TRUE)

\* The files the process is started with.  ext is path.extname(process.argv[2]):
\* with ".ini" the Config was built by fromJsonFile from another path.
Files ==
  { MainFile,
    File(".json", TRUE, <<>>, TRUE),
    File(".json", TRUE, <<S1>>, FALSE),
    File(".json", FALSE, <<>>, TRUE),
    File(".ini", TRUE, <<S1>>, TRUE) }

\* The declarations pushed to the node.
D1 == Decl(Op(ObjA(sX)), Num(1), Num(1), MATCH_POLICY_CANARY, lFoo)
D2 == Decl(Op(ObjA(sY)), Num(0), UndefNum, MATCH_POLICY_STOP, UndefLabel)
DynDecls == {D1, D2}

SeqsUpTo(S, n) == UNION {[1..k -> S] : k \in 0..n}

NodeValue(kind, decls) == [kind |-> kind, decls |-> decls]
NoNode == NodeValue("nonode", <<>>)
\* What the node holds: nothing (it does not exist), no data, text that is not
\* JSON, or a JSON array of at most MaxDyn declarations.
NodeValues ==
  {NoNode, NodeValue("nodata", <<>>), NodeValue("garbage", <<>>)}
  \cup {NodeValue("array", q) : q \in SeqsUpTo(DynDecls, MaxDyn)}

\* The zookeeper client before createClient, and no answer waiting.
ZkOff == [enabled |-> FALSE, req |-> FALSE, watch |-> FALSE, event |-> FALSE]
NoResp == [pending |-> FALSE, error |-> FALSE, data |-> NoNode]

\* The operations requests ask findRules about.
Operations == {EmptyObject, ObjA(sX), ObjA(sXY), ObjA(sY), ObjAB(sX, sY)}

----------------------------------------------------------------------------
(* Serialisation: toJson, and the text read back by JSON.parse *)

\* JSON.parse(JSON.stringify(v)) for a limit of a stored rule: a number is
\* written in digits and read back, null as null; a property whose value is
\* undefined is left out, and reads as undefined.
JsonLimit(v) == IF v.t = "undef" THEN UndefNum ELSE [t |-> v.t, n |-> v.n]

\* JSON.parse(JSON.stringify(l)) for the label of a stored rule: null is
\* written as null, a string between quotes.
JsonLabel(l) == IF l = NullLabel THEN NullLabel ELSE [i \in 1..Len(l) |-> l[i]]

\* The declaration JSON.parse reads from the text of a stored rule.
JsonRule(rule) ==
  [operation |-> [def |-> TRUE, o |-> rule.operation],
   creditLimit |-> JsonLimit(rule.creditLimit),
   resetSeconds |-> JsonLimit(rule.resetSeconds),
   matchPolicy |-> rule.matchPolicy,
   label |-> JsonLabel(rule.label)]

\* config.toJson(), as the file content JSON.parse reads from its text: the
\* rules with a non-empty pattern are the overrides, in stored order; each
\* rule with an empty pattern is assigned to data.default in turn, so the
\* last of them is the default.
toJson(rs) ==
  LET empty == {i \in 1..Len(rs) : Cardinality(DOMAIN rs[i].operation) = 0}
      IsOverride(rule) == Cardinality(DOMAIN rule.operation) # 0
      last == CHOOSE i \in empty : \A j \in empty : j <= i
  IN [ext |-> ".json", hasOverrides |-> TRUE,
      overrides |-> [k \in 1..Len(SelectSeq(rs, IsOverride)) |->
                       JsonRule(SelectSeq(rs, IsOverride)[k])],
      hasDefault |-> (empty # {}),
      default |-> IF empty # {} THEN JsonRule(rs[last]) ELSE Default]

----------------------------------------------------------------------------
(* The Config object used through its methods *)

NoRet == [call |-> "none", arg |-> <<>>, err |-> "none", idx |-> <<>>]

\* The variables of the service, which the methods alone leave as they are.
reloadVars == <<pc, file, node, zk, resp, escaped>>

InitApi ==
  /\ rules = <<>>
  /\ ruleLabels = {}
  /\ ret = NoRet
  /\ pc = "api"
  /\ file = MainFile
  /\ node = NoNode
  /\ zk = ZkOff
  /\ resp = NoResp
  /\ escaped = FALSE

\* config.addRule(a)
AddRule(a) ==
  LET r == addRule([rules |-> rules, ruleLabels |-> ruleLabels], a)
  IN /\ pc = "api"
     /\ Len(r.rules) <= MaxRules
     /\ rules' = r.rules
     /\ ruleLabels' = r.ruleLabels
     /\ ret' = [call |-> "addRule", arg |-> a, err |-> r.err, idx |-> <<>>]
     /\ UNCHANGED reloadVars

\* config.validate()
Validate ==
  /\ pc = "api"
  /\ ret' = [call |-> "validate", arg |-> <<>>, err |-> validate(rules), idx |-> <<>>]
  /\ UNCHANGED <<rules, ruleLabels>>
  /\ UNCHANGED reloadVars

\* findRules taking the rules it returns out of config.rules, and their labels
\* out of config.ruleLabels.
FindMatchesTaking(operation) ==
  LET found == findRules(rules, operation)
      taken == {found.idx[k] : k \in 1..Len(found.idx)}
      Kept(rule) == \A i \in taken : rules[i] # rule
  IN /\ pc = "api"
     /\ ret' = [call |-> "findRules", arg |-> operation, err |-> found.err, idx |-> found.idx]
     /\ rules' = SelectSeq(rules, Kept)
     /\ ruleLabels' = ruleLabels \ {rules[i].label : i \in taken}
     /\ UNCHANGED reloadVars

\* config.findRules(operation)
FindMatches(operation) ==
  LET found == findRules(rules, operation)
  IN /\ pc = "api"
     /\ ret' = [call |-> "findRules", arg |-> operation, err |-> found.err, idx |-> found.idx]
     /\ UNCHANGED <<rules, ruleLabels>>
     /\ UNCHANGED reloadVars

\* config.processNewRules(data, config), called with the data of a node
ProcessNewRules(data) ==
  LET r == processNewRules([rules |-> rules, ruleLabels |-> ruleLabels], file, data)
  IN /\ pc = "api"
     /\ data.kind # "nonode"
     /\ rules' = r.rules
     /\ ruleLabels' = r.ruleLabels
     /\ ret' = [call |-> "processNewRules", arg |-> data, err |-> r.err, idx |-> <<>>]
     /\ UNCHANGED reloadVars

NextApi ==
  \/ \E a \in ApiArgs : AddRule(a)
  \/ Validate
  \/ \E data \in NodeValues : ProcessNewRules(data)
  \/ \E operation \in Operations : FindMatches(operation)

SpecApi == InitApi /\ [][NextApi]_vars

----------------------------------------------------------------------------
(* The service: fromJsonFile at start, then the zookeeper callbacks *)

Init ==
  /\ rules = <<>>
  /\ ruleLabels = {}
  /\ ret = NoRet
  /\ pc = "start"
  /\ file \in Files
  /\ node \in NodeValues
  /\ zk \in {ZkOff, [ZkOff EXCEPT !.enabled = TRUE]}
  /\ resp = NoResp
  /\ escaped = FALSE

\* Config.fromJsonFile(process.argv[2]): with ZK_ENABLED_FOR_AUX_RULES it
\* calls config.getData, whose request leaves; then it builds the Config.
Load ==
  LET r == fromJsonFile(file)
  IN /\ pc = "start"
     /\ rules' = r.rules
     /\ ruleLabels' = r.ruleLabels
     /\ ret' = [call |-> "fromJsonFile", arg |-> <<>>, err |-> r.err, idx |-> <<>>]
     /\ pc' = IF r.err = "none" THEN "serving" ELSE "failed"
     /\ zk' = [zk EXCEPT !.req = zk.enabled]
     /\ UNCHANGED <<file, node, resp, escaped>>

\* The zookeeper server answers client.getData(path, watcher, callback): the
\* node's data and a watch on it, or an error (and no watch) when the node
\* does not exist.
ServerGetData ==
  /\ pc = "serving"
  /\ zk.req
  /\ zk' = [zk EXCEPT !.req = FALSE, !.watch = (node.kind # "nonode")]
  /\ resp' = [pending |-> TRUE, error |-> (node.kind = "nonode"), data |-> node]
  /\ UNCHANGED <<rules, ruleLabels, ret, pc, file, node, escaped>>

\* Somebody writes, creates or deletes the node; a watch that is set fires.
NodeChange(v) ==
  /\ pc = "serving"
  /\ v # node
  /\ node' = v
  /\ zk' = IF zk.watch THEN [zk EXCEPT !.watch = FALSE, !.event = TRUE] ELSE zk
  /\ UNCHANGED <<rules, ruleLabels, ret, pc, file, resp, escaped>>

\* The watcher passed to client.getData: it calls config.getData again.  The
\* client delivers an answer that came first before the event.
WatchEvent ==
  /\ pc = "serving"
  /\ zk.event
  /\ ~resp.pending
  /\ zk' = [zk EXCEPT !.event = FALSE, !.req = TRUE]
  /\ UNCHANGED <<rules, ruleLabels, ret, pc, file, node, resp, escaped>>

\* The data callback passed to client.getData, called with an error.
FetchError ==
  /\ pc = "serving"
  /\ resp.pending
  /\ resp.error
  /\ resp' = NoResp
  /\ ret' = [call |-> "getData", arg |-> resp.data, err |-> "fetch", idx |-> <<>>]
  /\ UNCHANGED <<rules, ruleLabels, pc, file, node, zk, escaped>>

\* The data callback passed to client.getData, called with data: it calls
\* config.processNewRules(data, config).  An exception processNewRules throws
\* leaves the callback; the process ends, unless its host catches it.
DataCallback ==
  LET r == processNewRules([rules |-> rules, ruleLabels |-> ruleLabels], file, resp.data)
      threw == r.err \notin {"none", "ini"}
  IN /\ pc = "serving"
     /\ resp.pending
     /\ ~resp.error
     /\ resp' = NoResp
     /\ rules' = r.rules
     /\ ruleLabels' = r.ruleLabels
     /\ ret' = [call |-> "processNewRules", arg |-> resp.data, err |-> r.err, idx |-> <<>>]
     /\ escaped' = (escaped \/ threw)
     /\ pc' \in (IF threw THEN {"serving", "crashed"} ELSE {"serving"})
     /\ UNCHANGED <<file, node, zk>>

Next ==
  \/ Load
  \/ ServerGetData
  \/ \E v \in NodeValues : NodeChange(v)
  \/ WatchEvent
  \/ FetchError
  \/ DataCallback

Spec == Init /\ [][Next]_vars

\* Load as a step of the process alone: Config.fromJsonFile runs to its end.
\* Every step of Next that satisfies it is a Load step, and it is enabled
\* exactly when Load is.
LoadRuns == pc = "start" /\ pc' \in {"serving", "failed"}

\* DataCallback as a step of the client alone: the data that waits is handed
\* to the data callback.  Every step of Next that satisfies it is a
\* DataCallback step, and it is enabled exactly when DataCallback is.
DataCallbackRuns == pc = "serving" /\ resp.pending /\ ~resp.error /\ resp' = NoResp

\* The scheduling the service relies on: the process starts, the zookeeper
\* server answers every request, and the client delivers every event and
\* every answer to the functions passed to client.getData.  Nothing is
\* assumed of who writes the node.
Fairness ==
  /\ WF_pc(LoadRuns)
  /\ WF_vars(ServerGetData)
  /\ WF_vars(WatchEvent)
  /\ WF_vars(FetchError)
  /\ WF_resp(DataCallbackRuns)

FairSpec == Spec /\ Fairness

----------------------------------------------------------------------------
(* One rule matched against one operation *)

\* The greatest length of the text before and of the text after the "*" of a
\* glob, and of a literal pattern value.
MaxPart == 1
\* The greatest length of an attribute value.
MaxValueLen == 3

\* The characters of pattern values and attribute values: a letter, a
\* character parseGlob escapes, and a line terminator.
Chars == {"x", ".", "\n"}

\* The globs P*S with one "*".
Globs == {P \o sStar \o S : P, S \in SeqsUpTo(Chars, MaxPart)}

sXStarStar == <<"x", "*", "*">>

\* The patterns: the empty one, {a: v} for "*", every literal and every glob,
\* and {a: v, b: w} for v, w among "*", a literal, a glob and a glob that
\* parseGlob cannot compile.
MatchPatterns ==
  {EmptyObject}
  \cup {ObjA(v) : v \in {sStar} \cup SeqsUpTo(Chars, MaxPart) \cup Globs}
  \cup {ObjAB(v, w) : v, w \in {sStar, sX, sXStar, sXStarStar}}

\* The operations: a present or absent, b present or absent.
MatchOperations ==
  {EmptyObject}
  \cup {ObjA(v) : v \in SeqsUpTo(Chars, MaxValueLen)}
  \cup {[k \in {"b"} |-> w] : w \in {sX, <<".">>}}
  \cup {ObjAB(v, w) : v \in SeqsUpTo(Chars, MaxValueLen), w \in {sX, <<".">>}}

\* A Config that holds one rule, which addRule has installed.
InitMatch ==
  /\ \E pattern \in MatchPatterns :
       rules = addRule(NewConfig, Arg(pattern, Num(1), Num(1), Undef, UndefLabel)).rules
  /\ ruleLabels = {}
  /\ ret = NoRet
  /\ pc = "match"
  /\ file = MainFile
  /\ node = NoNode
  /\ zk = ZkOff
  /\ resp = NoResp
  /\ escaped = FALSE

\* config.findRules(operation), called once
Match(operation) ==
  LET found == findRules(rules, operation)
  IN /\ pc = "match"
     /\ pc' = "matched"
     /\ ret' = [call |-> "findRules", arg |-> operation, err |-> found.err, idx |-> found.idx]
     /\ UNCHANGED <<rules, ruleLabels, file, node, zk, resp, escaped>>

NextMatch == \E operation \in MatchOperations : Match(operation)

SpecMatch == InitMatch /\ [][NextMatch]_vars

----------------------------------------------------------------------------
(* Properties *)

\* What a request for operation gets from the rule list rs: the error thrown,
\* if any, and the rules returned.
Results(rs, operation) ==
  LET found == findRules(rs, operation)
  IN [err |-> found.err, rules |-> Returned(rs, found)]

\* A step that ends a reload cycle (an answer to getData is consumed) in failure.
FailedCycle ==
  /\ resp.pending
  /\ ~resp'.pending
  /\ ret'.call \in {"getData", "processNewRules"}
  /\ ret'.err \notin {"none", "ini"}

\* C1. Reload isolation: a reload cycle that fails (fetch error, parse error,
\* validation error) leaves the result of findRules as it was, for every
\* operation.
C1_ReloadIsolation ==
  [][FailedCycle => \A op \in Operations : Results(rules', op) = Results(rules, op)]_vars

\* The rule lists a build from the file f can complete with: that of
\* fromJsonFile, and that of processNewRules for each value of the node.
CompleteRuleSets(f) ==
  {r.rules : r \in {b \in {fromJsonFile(f)} \cup {processNewRules(NewConfig, f, v) : v \in NodeValues} :
                      b.err = "none"}}

\* C2. Atomic replacement: whenever requests are served, the rule list is a
\* complete, validated rule list: that of the initial load or that of a
\* reload; never an empty or partly filled one.
C2_AtomicReplacement == pc = "serving" => rules \in CompleteRuleSets(file)

\* The positions of the rules of rs with an empty pattern.
EmptyPatternPositions(rs) == {i \in 1..Len(rs) : DOMAIN rs[i].operation = {}}

\* C3. Default-rule invariant: a rule list that validate() accepts holds
\* exactly one rule with an empty pattern, its last, and that rule is a stop
\* rule.
C3_DefaultRuleInvariant ==
  (ret.call = "validate" /\ ret.err = "none") =>
    /\ EmptyPatternPositions(rules) = {Len(rules)}
    /\ rules[Len(rules)].matchPolicy = MATCH_POLICY_STOP

\* The rule list ends in a stop rule with an empty pattern.
EndsInStopDefault(rs) ==
  /\ Len(rs) > 0
  /\ DOMAIN rs[Len(rs)].operation = {}
  /\ rs[Len(rs)].matchPolicy = MATCH_POLICY_STOP

\* C4. Total coverage: on a rule list that ends in a stop rule with an empty
\* pattern, findRules returns a non-empty sequence for every operation.
C4_TotalCoverage ==
  (ret.call = "findRules" /\ EndsInStopDefault(rules)) =>
    (ret.err = "none" /\ Len(ret.idx) > 0)

\* The positions of the rules of rs that are stop rules and match operation.
MatchingStops(rs, operation) ==
  {i \in 1..Len(rs) : /\ rs[i].matchPolicy = MATCH_POLICY_STOP
                       /\ MatchRule(rs[i], operation) = "match"}

\* C5. First-match precedence: the result of findRules holds at most one stop
\* rule; that rule is the first stop rule, in stored order, that matches the
\* operation, it is the last of the result, and no rule stored after it is in
\* the result.
C5_FirstMatchPrecedence ==
  (ret.call = "findRules" /\ ret.err = "none") =>
    LET stops == {k \in 1..Len(ret.idx) : rules[ret.idx[k]].matchPolicy = MATCH_POLICY_STOP}
        matching == MatchingStops(rules, ret.arg)
    IN /\ Cardinality(stops) <= 1
       /\ \A k \in stops :
            /\ k = Len(ret.idx)
            /\ ret.idx[k] \in matching
            /\ \A i \in matching : ret.idx[k] <= i
            /\ \A j \in 1..Len(ret.idx) : ret.idx[j] <= ret.idx[k]

\* Two stop rules match the operation asked about, and the first was returned.
C5_Witness ==
  /\ ret.call = "findRules"
  /\ ret.err = "none"
  /\ Cardinality(MatchingStops(rules, ret.arg)) >= 2
  /\ Len(ret.idx) >= 1
  /\ rules[ret.idx[Len(ret.idx)]].matchPolicy = MATCH_POLICY_STOP

\* C6. Canary accumulation: every canary rule that matches the operation and
\* is stored before the first matching stop rule is in the result of
\* findRules, and the result lists rules in stored order.
C6_CanaryAccumulation ==
  (ret.call = "findRules" /\ ret.err = "none") =>
    /\ \A i \in 1..Len(rules) :
         ( /\ rules[i].matchPolicy = MATCH_POLICY_CANARY
           /\ MatchRule(rules[i], ret.arg) = "match"
           /\ \A j \in MatchingStops(rules, ret.arg) : i < j )
         => \E k \in 1..Len(ret.idx) : ret.idx[k] = i
    /\ \A k \in 1..(Len(ret.idx) - 1) : ret.idx[k] < ret.idx[k + 1]

\* A canary rule and, after it, a stop rule were returned.
C6_Witness ==
  /\ ret.call = "findRules"
  /\ ret.err = "none"
  /\ Len(ret.idx) >= 2
  /\ rules[ret.idx[1]].matchPolicy = MATCH_POLICY_CANARY
  /\ rules[ret.idx[Len(ret.idx)]].matchPolicy = MATCH_POLICY_STOP

\* Some stop rule of rs matches the pattern, used as an operation.
Masked(rs, pattern) == MatchingStops(rs, pattern) # {}

\* No rule is matched, its pattern used as an operation, by a stop rule
\* stored before it.
NoMaskedRule(rs) ==
  \A i \in 1..Len(rs) : ~Masked(SubSeq(rs, 1, i - 1), rs[i].operation)

\* The step is a call of addRule with an operation.
AddRuleStep == ret'.call = "addRule" /\ ret'.arg.opDef

\* C7, as claimed. Unreachable-rule rejection: addRule fails and appends
\* nothing if and only if some stop rule added before matches the new rule's
\* pattern.
C7_FailsIffMasked ==
  [][AddRuleStep =>
       ((ret'.err # "none" /\ rules' = rules) <=> Masked(rules, ret'.arg.operation))]_vars

\* C7, amended. When some stop rule added before matches the new rule's
\* pattern, addRule fails and appends nothing; addRule raises the
\* unreachable-rule error only then (canary rules never cause it); and no rule
\* of the list is matched by a stop rule stored before it.
C7_UnreachableRuleRejection ==
  [][/\ AddRuleStep =>
          /\ Masked(rules, ret'.arg.operation) => (ret'.err # "none" /\ rules' = rules)
          /\ ret'.err = "unreachable" =>
               (Masked(rules, ret'.arg.operation) /\ rules' = rules)
     /\ NoMaskedRule(rules')]_vars

\* addRule has raised the unreachable-rule error for a rule that a canary rule
\* matches too.
C7_Witness ==
  /\ ret.call = "addRule"
  /\ ret.err = "unreachable"
  /\ Masked(rules, ret.arg.operation)
  /\ \E i \in 1..Len(rules) :
       /\ rules[i].matchPolicy = MATCH_POLICY_CANARY
       /\ MatchRule(rules[i], ret.arg.operation) = "match"

\* No two rules of rs have the same label, null aside.
NoDupLabels(rs) ==
  \A i, j \in 1..Len(rs) : (i # j /\ rs[i].label # NullLabel) => rs[i].label # rs[j].label

\* C8. Label uniqueness: no two rules of the list have the same non-null
\* label, whatever calls of addRule and processNewRules came before; and an
\* addRule whose label is that of a rule of the list fails and appends nothing.
C8_LabelUniqueness ==
  [][/\ NoDupLabels(rules')
     /\ ( /\ ret'.call = "addRule"
          /\ TruthyLabel(ret'.arg.label)
          /\ \E i \in 1..Len(rules) : rules[i].label = ret'.arg.label )
        => (ret'.err # "none" /\ rules' = rules)]_vars

\* addRule has refused a label that a rule of the list has.
C8_Witness ==
  /\ ret.call = "addRule"
  /\ ret.err = "duplicate"
  /\ \E i \in 1..Len(rules) : rules[i].label = ret.arg.label

\* The rules addRule installs for the declarations decls, in their order.
RulesOf(decls) == [i \in 1..Len(decls) |-> NewRule(RuleArg(decls[i]))]

\* C9. Dynamic precedence order: after a successful reload the rule list is
\* the node's declarations in their order, then the file's overrides in file
\* order, then the file's default.
C9_DynamicPrecedenceOrder ==
  (ret.call = "processNewRules" /\ ret.err = "none") =>
    rules = RulesOf(ret.arg.decls \o file.overrides \o <<file.default>>)

\* C10. Reload errors are not fatal: no exception leaves a zookeeper callback,
\* and the process keeps serving.
C10_ReloadErrorsNonFatal == ~escaped /\ pc # "crashed"

\* C11. Serialisation round trip: for a rule list that validate() accepts,
\* fromJsonFile on the text of toJson() succeeds, and the Config it builds
\* gives every operation the result the original gives.
C11_SerializationRoundTrip ==
  (ret.call = "validate" /\ ret.err = "none") =>
    LET r == fromJsonFile(toJson(rules))
    IN /\ r.err = "none"
       /\ \A op \in Operations : Results(r.rules, op) = Results(rules, op)

\* The limits of a rule are as addRule is meant to leave them: creditLimit a
\* number >= 0 and, when it is > 0, resetSeconds a number >= 1.
LimitsValid(rule) ==
  /\ rule.creditLimit.t = "num"
  /\ rule.creditLimit.n >= 0
  /\ rule.creditLimit.n > 0 => (rule.resetSeconds.t = "num" /\ rule.resetSeconds.n >= 1)

\* The argument has no creditLimit or a negative one, or a creditLimit > 0 and
\* no resetSeconds or one < 1.
LimitsRefused(a) ==
  \/ a.creditLimit.t = "undef"
  \/ a.creditLimit.t = "num" /\ a.creditLimit.n < 0
  \/ /\ a.creditLimit.t = "num" /\ a.creditLimit.n > 0
     /\ \/ a.resetSeconds.t = "undef"
        \/ a.resetSeconds.t = "num" /\ a.resetSeconds.n < 1

\* C12. Limit validation: every rule of the list has a creditLimit that is a
\* number >= 0 and, when its creditLimit is > 0, a resetSeconds that is a
\* number >= 1; and addRule with a missing or negative creditLimit, or with
\* creditLimit > 0 and a missing or < 1 resetSeconds, fails and appends nothing.
C12_LimitValidation ==
  [][/\ \A i \in 1..Len(rules') : LimitsValid(rules'[i])
     /\ (AddRuleStep /\ LimitsRefused(ret'.arg)) => (ret'.err # "none" /\ rules' = rules)]_vars

\* C13. Default-validity: validate() fails when the rule list is empty and
\* when its last rule has a non-empty pattern; it succeeds exactly when the
\* list is non-empty and its last rule has an empty pattern.  It changes
\* neither case into the other: the error names which of the two it was.
C13_DefaultValidity ==
  ret.call = "validate" =>
    /\ Len(rules) = 0 => ret.err = "norules"
    /\ (Len(rules) > 0 /\ DOMAIN rules[Len(rules)].operation # {}) => ret.err = "nodefault"
    /\ ret.err = "none" <=> (Len(rules) > 0 /\ DOMAIN rules[Len(rules)].operation = {})

\* validate() has refused a list that holds a rule with an empty pattern, but
\* not as its last rule.
C13_Witness ==
  /\ ret.call = "validate"
  /\ ret.err = "nodefault"
  /\ EmptyPatternPositions(rules) # {}

ReloadDecls(f, data) ==
  Reverse(data.decls) \o f.overrides \o (IF f.hasDefault THEN <<f.default>> ELSE <<>>)

\* C15. Reload is history-independent: after a reload that succeeded, the
\* rule list and the label set are those of the file and of the data just
\* fetched, whatever the Config held before: nothing of earlier reloads or of
\* the first load is left, and the same data gives the same Config again.
C15_ReloadHistoryIndependent ==
  (ret.call = "processNewRules" /\ ret.err = "none") =>
    /\ rules = RulesOf(ReloadDecls(file, ret.arg))
    /\ ruleLabels = {rules[i].label : i \in 1..Len(rules)} \ {NullLabel}

\* A reload has succeeded with a labelled declaration in the node.
C15_Witness ==
  /\ ret.call = "processNewRules"
  /\ ret.err = "none"
  /\ ret.arg.decls = <<D1>>
  /\ ruleLabels = {lFoo}

\* C16. Watch re-registration: once a watch has been registered, and as long
\* as the process runs, a value the node is changed to and then keeps is
\* eventually the value of a reload attempt, failed fetches and failed
\* rebuilds before it notwithstanding.  Stated for the value [D2].
C16_WatchReRegistration ==
  (<>(zk.watch) /\ [](pc # "crashed") /\ <>[](node = NodeValue("array", <<D2>>)))
    => <>(ret.call = "processNewRules" /\ ret.arg = NodeValue("array", <<D2>>))

\* Whether the pattern value pv matches the attribute actual ([def, s]): "*"
\* matches any value and an absent attribute; a value without "*" matches the
\* attribute that is present and equal to it; a glob matches as its regular
\* expression does.
KeyMatches(pv, actual) ==
  IF pv = sStar THEN TRUE
  ELSE IF \A i \in 1..Len(pv) : pv[i] # "*" THEN actual.def /\ actual.s = pv
  ELSE ~parseGlob(pv).err /\ RegexTest(parseGlob(pv).atoms, actual)

\* C17. Per-key matching: findRules returns a rule exactly when every key of
\* its pattern matches the operation; so a rule with an empty pattern is
\* always returned, "*" matches an attribute present or absent, and a value
\* without "*" matches only the attribute present and equal to it.
C17_PerKeyMatching ==
  pc = "matched" =>
    ((ret.err = "none" /\ ret.idx = <<1>>)
       <=> \A k \in DOMAIN rules[1].operation :
             KeyMatches(rules[1].operation[k], Get(ret.arg, k)))

\* The rule {a: "*", b: "x"} was returned for an operation without a.
C17_Witness ==
  /\ pc = "matched"
  /\ rules[1].operation = ObjAB(sStar, sX)
  /\ DOMAIN ret.arg = {"b"}
  /\ ret.idx = <<1>>

\* v starts with P, and S occurs in v after that.
PrefixThenInfix(v, P, S) ==
  /\ Len(v) >= Len(P) + Len(S)
  /\ SubSeq(v, 1, Len(P)) = P
  /\ \E j \in (Len(P) + 1)..(Len(v) - Len(S) + 1) : SubSeq(v, j, j + Len(S) - 1) = S

\* C18. Glob prefix semantics: a rule {a: P*S}, with one "*", is returned for
\* an operation whose a is v exactly when v starts with P and S occurs in v
\* after that prefix.
C18_GlobPrefixSemantics ==
  ( /\ pc = "matched"
    /\ DOMAIN rules[1].operation = {"a"}
    /\ rules[1].operation["a"] \in Globs
    /\ "a" \in DOMAIN ret.arg ) =>
    LET g == rules[1].operation["a"]
        star == CHOOSE i \in 1..Len(g) : g[i] = "*"
        P == SubSeq(g, 1, star - 1)
        S == SubSeq(g, star + 1, Len(g))
    IN (ret.err = "none" /\ ret.idx = <<1>>) <=> PrefixThenInfix(ret.arg["a"], P, S)

\* The labels of the rules of rs, null aside.
LabelsOf(rs) == {rs[i].label : i \in 1..Len(rs)} \ {NullLabel}

\* C19. A failed addRule changes nothing: when addRule throws, the rule list
\* and the label set are as they were before the call; and the label set is
\* always the set of the labels of the rules of the list.
C19_FailedAddRuleChangesNothing ==
  [][/\ (ret'.call = "addRule" /\ ret'.err # "none") =>
          (rules' = rules /\ ruleLabels' = ruleLabels)
     /\ ruleLabels' = LabelsOf(rules')]_vars

\* C20. Match-policy invariant: every rule of the list has matchPolicy stop or
\* canary, whatever calls of addRule and processNewRules came before, and no
\* call raises the error "Rule does not define a match policy".
C20_MatchPolicyInvariant ==
  /\ \A i \in 1..Len(rules) : rules[i].matchPolicy \in {MATCH_POLICY_STOP, MATCH_POLICY_CANARY}
  /\ ret.err # "bug"

\* addRule has installed, as a stop rule, a rule given without a policy.
C20_Witness ==
  /\ ret.call = "addRule"
  /\ ret.err = "none"
  /\ ~Truthy(ret.arg.matchPolicy)
  /\ rules[Len(rules)].operation = ret.arg.operation
  /\ rules[Len(rules)].matchPolicy = MATCH_POLICY_STOP

====
